---- MODULE Spec2Model ----
(***************************************************************************)
(* Amazon DSP Creative Scanner (src/app.py): the specification catalog,    *)
(* the matcher (check_image_specs and the nearest-format search of main),  *)
(* the two encoders (compress_image, resize_image) and the part of main    *)
(* that classifies every uploaded file, offers one corrective button and   *)
(* reports the missing formats.                                            *)
(*                                                                         *)
(* Sizes.  The code measures sizes in KB as <bytes> / 1024 (a float) and   *)
(* compares them with max_size_kb.  The model keeps every measured size as *)
(* its byte count and compares it with max_size_kb * 1024, which is the    *)
(* same comparison without fractions.                                      *)
(*                                                                         *)
(* Encoders.  PIL's JPEG and PNG encoders are outside the repository: the  *)
(* size of every encode attempt is a nondeterministic choice.  An encoded  *)
(* buffer is the record [enc, param, size]: the stream family, the quality *)
(* or compression level it was encoded with, and its byte count.           *)
(***************************************************************************)
EXTENDS Integers, Sequences, FiniteSets, TLC

\* ------------------------------------------------------------------ bounds
\* Largest number of files of one upload (one run of main's for loop).
MaxBatch == 3

\* ------------------------------------------------------- program constants
KB == 1024
StartQuality == 95
QualityFloor == 5
MaxCompression == 9
\* float('inf'); every real size or distance is below it.
Inf == -1

None == "None"
\* The value of a name that holds no encoded bytes: None for best_bytes and
\* final_bytes, the empty buffer for a fresh io.BytesIO().
NoBytes == [enc |-> "None", param |-> 0, size |-> 0]
EmptyBuffer == [enc |-> "empty", param |-> 0, size |-> 0]

\* ----------------------------------------------------------------- catalog
\* The dict keeps insertion order; .items() iterates in this order.
AMAZON_DSP_SPECS ==
    << [name |-> "Desktop Medium Rectangle",  width |-> 300,  height |-> 250, max_size |-> 40],
       [name |-> "Desktop Leaderboard",       width |-> 728,  height |-> 90,  max_size |-> 40],
       [name |-> "Desktop Wide Skyscraper",   width |-> 160,  height |-> 600, max_size |-> 40],
       [name |-> "Desktop Large Rectangle",   width |-> 300,  height |-> 600, max_size |-> 50],
       [name |-> "Desktop Billboard",         width |-> 1940, height |-> 500, max_size |-> 200],
       [name |-> "Mobile Leaderboard",        width |-> 640,  height |-> 100, max_size |-> 50],
       [name |-> "Mobile Detail Banner",      width |-> 828,  height |-> 250, max_size |-> 100],
       [name |-> "Mobile Medium Rectangle",   width |-> 600,  height |-> 500, max_size |-> 40],
       [name |-> "Mobile Leaderboard Tablet", width |-> 1456, height |-> 180, max_size |-> 200] >>

SpecNames == {AMAZON_DSP_SPECS[i].name : i \in DOMAIN AMAZON_DSP_SPECS}
Ceilings == {AMAZON_DSP_SPECS[i].max_size : i \in DOMAIN AMAZON_DSP_SPECS}

\* ------------------------------------------------------------------ inputs
\* Pixel sizes of the uploaded images: the nine catalog sizes and sizes that
\* match no entry, among them ties of the nearest search (300x425 is 175
\* away from 300x250 and from 300x600; 684x95 is 49 away from 728x90 and
\* from 640x100) and the 800x100 image of the specification's scenario 2.
ImageSizes ==
    { <<AMAZON_DSP_SPECS[i].width, AMAZON_DSP_SPECS[i].height>> :
          i \in DOMAIN AMAZON_DSP_SPECS }
    \cup { <<300, 425>>, <<684, 95>>, <<800, 100>>, <<300, 251>>,
           <<250, 300>>, <<1698, 340>>, <<1, 1>>, <<450, 550>> }

\* Byte counts on both sides of each ceiling (40, 50, 100, 200 KB).
FileSizes == {40960, 40961, 51201, 204801}
EncodedSizes == {40960, 40961, 51200, 51201, 204800, 204801}

\* Image.format of an uploaded jpg/jpeg/png file.
FileFormats == {"JPEG", "PNG"}
\* Image.mode.  Only compress_image's format logic depends on it (line 112),
\* so it is drawn where that line reads it.
PixelModes == {"RGB", "L"}

\* ----------------------------------------------------------------- matcher
\* abs()
Abs(x) == IF x < 0 THEN -x ELSE x

\* size_kb > max_size, with size_kb = bytes / 1024
ExceedsKB(bytes, max_size) == bytes > max_size * KB

\* size / 1024 <= max_size_kb
FitsKB(bytes, max_size) == bytes <= max_size * KB

\* The test of line 48 on the entry at position i.
SameDimensionsWidthOnly(width, height, i) == width = AMAZON_DSP_SPECS[i].width
SameDimensions(width, height, i) ==
    width = AMAZON_DSP_SPECS[i].width /\ height = AMAZON_DSP_SPECS[i].height

\* The for loop of check_image_specs from position i on: the first entry
\* with the image's dimensions, else (None, size_kb, None).  None for
\* max_size is 0 here.
RECURSIVE scan_specs(_, _, _)
scan_specs(i, width, height) ==
    IF i > Len(AMAZON_DSP_SPECS)
    THEN [format_name |-> None, max_size |-> 0]
    ELSE IF SameDimensions(width, height, i)
         THEN [format_name |-> AMAZON_DSP_SPECS[i].name,
               max_size |-> AMAZON_DSP_SPECS[i].max_size]
         ELSE scan_specs(i + 1, width, height)

check_image_specs(width, height) == scan_specs(1, width, height)

\* w_diff + h_diff of lines 213-215 for the entry at position i.
Diff(width, height, i) ==
    Abs(width - AMAZON_DSP_SPECS[i].width) + Abs(height - AMAZON_DSP_SPECS[i].height)

\* w_diff + h_diff < min_diff
CloserOrEqual(diff, min_diff) == min_diff = Inf \/ diff <= min_diff
Closer(diff, min_diff) == min_diff = Inf \/ diff < min_diff

\* The for loop of lines 212-217 from position i on, with the running
\* min_diff and closest_match (the position of the entry, 0 for None).
RECURSIVE scan_closest(_, _, _, _, _)
scan_closest(i, width, height, min_diff, closest) ==
    IF i > Len(AMAZON_DSP_SPECS)
    THEN closest
    ELSE IF Closer(Diff(width, height, i), min_diff)
         THEN scan_closest(i + 1, width, height, Diff(width, height, i), i)
         ELSE scan_closest(i + 1, width, height, min_diff, closest)

closest_match_of(width, height) == scan_closest(1, width, height, Inf, 0)

\* ------------------------------------------------------------------- state
VARIABLES
    \* main
    pc,                \* "loop", "button", "call", "download", "done"
    nfiles,            \* files of uploaded_files the for loop has taken
    image,             \* Image.open(file): [width, height, format]
    size_kb,           \* check_image_specs' size_kb, as the file's byte count
    format_name,       \* check_image_specs' first result, None when no match
    max_size,          \* check_image_specs' third result, 0 for None
    current_size,      \* line 206: byte count of the image saved again
    closest_match,     \* line 217: position of the entry in the catalog, 0 for None
    needs_compression, \* line 220
    offered,           \* the button rendered: "none", "compress", "resize", "resize_compress"
    found_formats,     \* line 175
    missing_formats,   \* line 252
    download,          \* st.download_button: [data, ext, suffix]
    \* compress_image / resize_image
    fn,                \* the function running: "none", "compress_image", "resize_image"
    epc,               \* "idle", "jpeg", "png", "fallback", "returned"
    arg_format,        \* image.format as read by the output_format line
    max_size_kb,       \* the ceiling passed
    target,            \* the size the image is resized to, <<0, 0>> when it is not
    quality,
    compression,
    img_byte_arr,
    min_size,
    best_bytes,
    final_bytes,
    output_format,
    ret,               \* the value returned: [bytes, format]
    \* history, not read by any action
    seen,              \* the pixel sizes of the files the loop has taken
    jpeg_log,          \* the JPEG encodes of the running call: <<[quality, fit]>>
    png_log,           \* the PNG encodes of the running call: <<[level, fit]>>
    exhausted          \* the value an earlier call returned without meeting its ceiling

mainVars == <<pc, nfiles, image, size_kb, format_name, max_size, current_size,
              closest_match, needs_compression, offered, found_formats,
              missing_formats, download, seen>>
encVars == <<fn, epc, arg_format, max_size_kb, target, quality, compression,
             img_byte_arr, min_size, best_bytes, final_bytes, output_format, ret,
             jpeg_log, png_log>>
vars == <<mainVars, encVars, exhausted>>

NoImage == [width |-> 0, height |-> 0, format |-> None]
NoDownload == [data |-> NoBytes, ext |-> None, suffix |-> None]
NoReturn == [bytes |-> NoBytes, format |-> None]

EncoderIdle ==
    /\ fn = "none"
    /\ epc = "idle"
    /\ arg_format = None
    /\ max_size_kb = 0
    /\ target = <<0, 0>>
    /\ quality = 0
    /\ compression = 0
    /\ img_byte_arr = EmptyBuffer
    /\ min_size = Inf
    /\ best_bytes = NoBytes
    /\ final_bytes = NoBytes
    /\ output_format = None
    /\ ret = NoReturn
    /\ jpeg_log = << >>
    /\ png_log = << >>

\* main after line 176: found_formats = set(), no file taken yet.
Init ==
    /\ pc = "loop"
    /\ nfiles = 0
    /\ image = NoImage
    /\ size_kb = 0
    /\ format_name = None
    /\ max_size = 0
    /\ current_size = 0
    /\ closest_match = 0
    /\ needs_compression = FALSE
    /\ offered = "none"
    /\ found_formats = {}
    /\ missing_formats = {}
    /\ download = NoDownload
    /\ seen = {}
    /\ EncoderIdle
    /\ exhausted = NoReturn

\* ---------------------------------------------------------- main, per file
\* found_formats.add(format_name)
AddFoundOverwrite(found, name) == {name}
AddFound(found, name) == found \cup {name}

\* set(AMAZON_DSP_SPECS.keys()) - found_formats
MissingFormats(found) == SpecNames \ found

\* The names an iteration of the for loop binds, before it binds them.
LocalsCleared ==
    /\ image' = NoImage
    /\ size_kb' = 0
    /\ format_name' = None
    /\ max_size' = 0
    /\ current_size' = 0
    /\ closest_match' = 0
    /\ needs_compression' = FALSE
    /\ offered' = "none"
    /\ download' = NoDownload

\* Lines 179-193 and 203-231: one file of the for loop up to its button.
\* Image.open gives the pixel size and the format; the file's byte count
\* and, for a file that matches no entry, the byte count of the image saved
\* again in its own format (line 205) are inputs.
ProcessFile(limit) ==
    /\ pc = "loop"
    /\ nfiles < limit
    /\ \E wh \in ImageSizes, f \in FileFormats, bytes \in FileSizes :
         LET res == check_image_specs(wh[1], wh[2])
             closest == closest_match_of(wh[1], wh[2])
         IN  /\ image' = [width |-> wh[1], height |-> wh[2], format |-> f]
             /\ size_kb' = bytes
             /\ format_name' = res.format_name
             /\ max_size' = res.max_size
             /\ seen' = seen \cup {wh}
             /\ IF res.format_name # None
                THEN /\ found_formats' = AddFound(found_formats, res.format_name)
                     /\ current_size' = 0
                     /\ closest_match' = 0
                     /\ needs_compression' = FALSE
                     /\ offered' = IF ExceedsKB(bytes, res.max_size)
                                   THEN "compress" ELSE "none"
                ELSE /\ found_formats' = found_formats
                     /\ closest_match' = closest
                     /\ \E resaved \in FileSizes :
                          /\ current_size' = resaved
                          /\ IF closest # 0
                             THEN LET nc == ExceedsKB(resaved,
                                                      AMAZON_DSP_SPECS[closest].max_size)
                                  IN  /\ needs_compression' = nc
                                      /\ offered' = IF nc THEN "resize_compress"
                                                    ELSE "resize"
                             ELSE /\ needs_compression' = FALSE
                                  /\ offered' = "none"
    /\ nfiles' = nfiles + 1
    /\ pc' = "button"
    /\ download' = NoDownload
    /\ UNCHANGED <<missing_formats, encVars, exhausted>>

\* st.button returns False (no button was rendered, or it was not clicked):
\* the iteration ends.  The next iteration binds every local name again
\* before reading it; the model clears them here.
NoClick ==
    /\ pc = "button"
    /\ pc' = "loop"
    /\ LocalsCleared
    /\ UNCHANGED <<nfiles, found_formats, missing_formats, seen, encVars, exhausted>>

\* Lines 251-252, once the for loop has taken every file of a non-empty upload.
Finish ==
    /\ pc = "loop"
    /\ nfiles >= 1
    /\ missing_formats' = MissingFormats(found_formats)
    /\ pc' = "done"
    /\ UNCHANGED <<nfiles, image, size_kb, format_name, max_size, current_size,
                   closest_match, needs_compression, offered, found_formats,
                   download, seen, encVars, exhausted>>

\* ---------------------------------------------------------------- encoders
JpegBytes(q, size) == [enc |-> "JPEG", param |-> q, size |-> size]
PngBytes(level, size) == [enc |-> "PNG", param |-> level, size |-> size]

\* while quality > 5
LoopGuardZero(q) == q > 0
LoopGuard(q) == q > QualityFloor

\* quality -= 5
QualityStepTen(q) == q - 10
QualityStep(q) == q - 5

\* current_size < min_size
LessThan(size, min) == min = Inf \/ size < min

\* 'JPEG' if image.format in ['JPEG', 'JPG'] else 'PNG'
OutputFormat(fmt) == IF fmt \in {"JPEG", "JPG"} THEN "JPEG" ELSE "PNG"

\* Line 158: final_bytes if final_bytes is not None else img_byte_arr.getvalue()
CompressReturnFinalOnly(final, buffer) == final
CompressReturn(final, buffer) == IF final # NoBytes THEN final ELSE buffer

\* Lines 110-119 and 129-132: compress_image up to its first encode.  fmt is
\* the format of the image passed.  Image.convert returns a new image, and
\* an image the library makes has no format (format is None).
compress_image_call(fmt, ceiling) ==
    \E mode \in PixelModes :
        LET f == IF mode # "RGB" THEN None ELSE fmt
        IN  /\ fn' = "compress_image"
            /\ arg_format' = f
            /\ max_size_kb' = ceiling
            /\ img_byte_arr' = EmptyBuffer
            /\ output_format' = OutputFormat(f)
            /\ final_bytes' = NoBytes
            /\ min_size' = Inf
            /\ best_bytes' = NoBytes
            /\ IF OutputFormat(f) = "JPEG"
               THEN /\ quality' = StartQuality
                    /\ compression' = 0
                    /\ epc' = "jpeg"
               ELSE /\ quality' = 0
                    /\ compression' = MaxCompression
                    /\ epc' = "png"
            /\ ret' = NoReturn
            /\ jpeg_log' = << >>
            /\ png_log' = << >>

\* Lines 63-72 and 82: resize_image up to its first encode.  The format is
\* the one of the image passed, not of the resized copy.
resize_image_call(fmt, ceiling) ==
    /\ fn' = "resize_image"
    /\ arg_format' = fmt
    /\ max_size_kb' = ceiling
    /\ img_byte_arr' = EmptyBuffer
    /\ output_format' = OutputFormat(fmt)
    /\ final_bytes' = NoBytes
    /\ min_size' = Inf
    /\ best_bytes' = NoBytes
    /\ IF OutputFormat(fmt) = "JPEG"
       THEN /\ quality' = StartQuality
            /\ compression' = 0
            /\ epc' = "jpeg"
       ELSE /\ quality' = 0
            /\ compression' = MaxCompression
            /\ epc' = "png"
    /\ ret' = NoReturn
    /\ jpeg_log' = << >>
    /\ png_log' = << >>

\* Lines 120-127 and 158: one pass of the JPEG loop of compress_image, and
\* the return when the loop ends.
CompressJpegAttempt ==
    /\ fn = "compress_image"
    /\ epc = "jpeg"
    /\ LoopGuard(quality)
    /\ \E size \in EncodedSizes :
         LET encoded == JpegBytes(quality, size)
             fit == FitsKB(size, max_size_kb)
             final == IF fit THEN encoded ELSE final_bytes
             q == IF fit THEN quality ELSE QualityStep(quality)
         IN  /\ img_byte_arr' = encoded
             /\ jpeg_log' = Append(jpeg_log, [quality |-> quality, fit |-> fit])
             /\ final_bytes' = final
             /\ quality' = q
             /\ IF fit \/ ~LoopGuard(q)
                THEN /\ epc' = "returned"
                     /\ ret' = [bytes |-> CompressReturn(final, encoded), format |-> None]
                ELSE UNCHANGED <<epc, ret>>
    /\ UNCHANGED <<fn, arg_format, max_size_kb, target, compression, min_size,
                   best_bytes, output_format, png_log, mainVars, exhausted>>

\* Lines 132-145 and 156-158: one pass of the compression-level loop of
\* compress_image; after the loop, the JPEG loop is entered when best_bytes
\* is None, else best_bytes is returned.
CompressPngAttempt ==
    /\ fn = "compress_image"
    /\ epc = "png"
    /\ compression >= 0
    /\ \E size \in EncodedSizes :
         LET temp_buffer == PngBytes(compression, size)
             fit == FitsKB(size, max_size_kb)
             better == fit /\ LessThan(size, min_size)
             best == IF better THEN temp_buffer ELSE best_bytes
             over == fit \/ compression = 0
         IN  /\ png_log' = Append(png_log, [level |-> compression, fit |-> fit])
             /\ min_size' = IF better THEN size ELSE min_size
             /\ best_bytes' = best
             /\ compression' = IF over THEN compression ELSE compression - 1
             /\ IF ~over
                THEN UNCHANGED <<epc, quality, final_bytes, ret>>
                ELSE IF best = NoBytes
                     THEN /\ quality' = StartQuality
                          /\ epc' = "fallback"
                          /\ UNCHANGED <<final_bytes, ret>>
                     ELSE /\ final_bytes' = best
                          /\ epc' = "returned"
                          /\ ret' = [bytes |-> CompressReturn(best, img_byte_arr),
                                     format |-> None]
                          /\ UNCHANGED quality
    /\ UNCHANGED <<fn, arg_format, max_size_kb, target, img_byte_arr,
                   output_format, jpeg_log, mainVars, exhausted>>

\* Lines 146-158: one pass of the JPEG loop compress_image falls back to.
CompressFallbackAttempt ==
    /\ fn = "compress_image"
    /\ epc = "fallback"
    /\ LoopGuard(quality)
    /\ \E size \in EncodedSizes :
         LET encoded == JpegBytes(quality, size)
             fit == FitsKB(size, max_size_kb)
             best == IF fit THEN encoded ELSE best_bytes
             q == IF fit THEN quality ELSE QualityStep(quality)
         IN  /\ img_byte_arr' = encoded
             /\ jpeg_log' = Append(jpeg_log, [quality |-> quality, fit |-> fit])
             /\ best_bytes' = best
             /\ output_format' = IF fit THEN "JPEG" ELSE output_format
             /\ quality' = q
             /\ IF fit \/ ~LoopGuard(q)
                THEN /\ final_bytes' = best
                     /\ epc' = "returned"
                     /\ ret' = [bytes |-> CompressReturn(best, encoded), format |-> None]
                ELSE UNCHANGED <<final_bytes, epc, ret>>
    /\ UNCHANGED <<fn, arg_format, max_size_kb, target, compression, min_size,
                   png_log, mainVars, exhausted>>

\* Lines 73-81 and 98-99: one pass of the JPEG loop of resize_image.
ResizeJpegAttempt ==
    /\ fn = "resize_image"
    /\ epc = "jpeg"
    /\ LoopGuard(quality)
    /\ \E size \in EncodedSizes :
         LET encoded == JpegBytes(quality, size)
             fit == FitsKB(size, max_size_kb)
             q == IF fit THEN quality ELSE QualityStep(quality)
         IN  /\ img_byte_arr' = encoded
             /\ jpeg_log' = Append(jpeg_log, [quality |-> quality, fit |-> fit])
             /\ quality' = q
             /\ IF fit \/ ~LoopGuard(q)
                THEN /\ epc' = "returned"
                     /\ ret' = [bytes |-> encoded, format |-> output_format]
                ELSE UNCHANGED <<epc, ret>>
    /\ UNCHANGED <<fn, arg_format, max_size_kb, target, compression, min_size,
                   best_bytes, final_bytes, output_format, png_log, mainVars,
                   exhausted>>

\* Lines 83-88 and 98-99: the one PNG encode of resize_image, at
\* compression_level=9; above the ceiling, a fresh buffer and the JPEG loop.
ResizePngAttempt ==
    /\ fn = "resize_image"
    /\ epc = "png"
    /\ \E size \in EncodedSizes :
         LET encoded == PngBytes(compression, size)
             fit == FitsKB(size, max_size_kb)
         IN  /\ png_log' = Append(png_log, [level |-> compression, fit |-> fit])
             /\ IF ~fit
                THEN /\ img_byte_arr' = EmptyBuffer
                     /\ quality' = StartQuality
                     /\ epc' = "fallback"
                     /\ UNCHANGED ret
                ELSE /\ img_byte_arr' = encoded
                     /\ epc' = "returned"
                     /\ ret' = [bytes |-> encoded, format |-> output_format]
                     /\ UNCHANGED quality
    /\ UNCHANGED <<fn, arg_format, max_size_kb, target, compression, min_size,
                   best_bytes, final_bytes, output_format, jpeg_log, mainVars,
                   exhausted>>

\* Lines 89-99: one pass of the JPEG loop resize_image falls back to.
ResizeFallbackAttempt ==
    /\ fn = "resize_image"
    /\ epc = "fallback"
    /\ LoopGuard(quality)
    /\ \E size \in EncodedSizes :
         LET encoded == JpegBytes(quality, size)
             fit == FitsKB(size, max_size_kb)
             q == IF fit THEN quality ELSE QualityStep(quality)
             fmt == IF fit THEN "JPEG" ELSE output_format
         IN  /\ img_byte_arr' = encoded
             /\ jpeg_log' = Append(jpeg_log, [quality |-> quality, fit |-> fit])
             /\ output_format' = fmt
             /\ quality' = q
             /\ IF fit \/ ~LoopGuard(q)
                THEN /\ epc' = "returned"
                     /\ ret' = [bytes |-> encoded, format |-> fmt]
                ELSE UNCHANGED <<epc, ret>>
    /\ UNCHANGED <<fn, arg_format, max_size_kb, target, compression, min_size,
                   best_bytes, final_bytes, png_log, mainVars, exhausted>>

Encode ==
    \/ CompressJpegAttempt
    \/ CompressPngAttempt
    \/ CompressFallbackAttempt
    \/ ResizeJpegAttempt
    \/ ResizePngAttempt
    \/ ResizeFallbackAttempt

\* ------------------------------------------------------- main, the buttons
\* str.lower() on a format name
Lower(fmt) == CASE fmt = "JPEG" -> "jpeg"
                [] fmt = "JPG" -> "jpg"
                [] fmt = "PNG" -> "png"
                [] OTHER -> fmt

\* Lines 194-195: "Compress" clicked; compress_image(image, max_size).
ClickCompress ==
    /\ pc = "button"
    /\ offered = "compress"
    /\ compress_image_call(image.format, max_size)
    /\ target' = <<0, 0>>
    /\ pc' = "call"
    /\ UNCHANGED <<nfiles, image, size_kb, format_name, max_size, current_size,
                   closest_match, needs_compression, offered, found_formats,
                   missing_formats, download, seen, exhausted>>

\* Lines 233-237: "Resize and compress" clicked; the image is resized to the
\* closest entry's size (the copy has no format) and compress_image is called
\* on the copy with the closest entry's ceiling.
ClickResizeCompress ==
    /\ pc = "button"
    /\ offered = "resize_compress"
    /\ needs_compression
    /\ compress_image_call(None, AMAZON_DSP_SPECS[closest_match].max_size)
    /\ target' = <<AMAZON_DSP_SPECS[closest_match].width,
                   AMAZON_DSP_SPECS[closest_match].height>>
    /\ pc' = "call"
    /\ UNCHANGED <<nfiles, image, size_kb, format_name, max_size, current_size,
                   closest_match, needs_compression, offered, found_formats,
                   missing_formats, download, seen, exhausted>>

\* Lines 233-234 and 241: "Resize" clicked; resize_image(image, w, h, max) of
\* the closest entry.
ClickResize ==
    /\ pc = "button"
    /\ offered = "resize"
    /\ ~needs_compression
    /\ resize_image_call(image.format, AMAZON_DSP_SPECS[closest_match].max_size)
    /\ target' = <<AMAZON_DSP_SPECS[closest_match].width,
                   AMAZON_DSP_SPECS[closest_match].height>>
    /\ pc' = "call"
    /\ UNCHANGED <<nfiles, image, size_kb, format_name, max_size, current_size,
                   closest_match, needs_compression, offered, found_formats,
                   missing_formats, download, seen, exhausted>>

\* Lines 196-201 and 238-249: st.download_button with the bytes returned;
\* ext is the file extension and the image/<ext> MIME subtype.
Download ==
    /\ pc = "call"
    /\ epc = "returned"
    /\ download' =
         CASE offered = "compress" ->
                  [data |-> ret.bytes, ext |-> Lower(image.format),
                   suffix |-> "compressed"]
           [] offered = "resize_compress" ->
                  [data |-> ret.bytes, ext |-> Lower(OutputFormat(image.format)),
                   suffix |-> "resized_compressed"]
           [] offered = "resize" ->
                  [data |-> ret.bytes, ext |-> Lower(ret.format),
                   suffix |-> "resized"]
    /\ pc' = "download"
    /\ UNCHANGED <<nfiles, image, size_kb, format_name, max_size, current_size,
                   closest_match, needs_compression, offered, found_formats,
                   missing_formats, seen, encVars, exhausted>>

\* The encoder's frame is gone once its call has returned.
EncoderCleared ==
    /\ fn' = "none"
    /\ epc' = "idle"
    /\ arg_format' = None
    /\ max_size_kb' = 0
    /\ target' = <<0, 0>>
    /\ quality' = 0
    /\ compression' = 0
    /\ img_byte_arr' = EmptyBuffer
    /\ min_size' = Inf
    /\ best_bytes' = NoBytes
    /\ final_bytes' = NoBytes
    /\ output_format' = None
    /\ ret' = NoReturn
    /\ jpeg_log' = << >>
    /\ png_log' = << >>

\* The iteration that rendered the download ends.
NextFile ==
    /\ pc = "download"
    /\ pc' = "loop"
    /\ LocalsCleared
    /\ EncoderCleared
    /\ UNCHANGED <<nfiles, found_formats, missing_formats, seen, exhausted>>

\* ---------------------------------------------------------- specifications
\* A run of main over an upload of one file, whose button may be clicked.
Next ==
    \/ ProcessFile(1)
    \/ NoClick
    \/ ClickCompress
    \/ ClickResizeCompress
    \/ ClickResize
    \/ Encode
    \/ Download
    \/ NextFile
    \/ Finish
Spec == Init /\ [][Next]_vars

\* A run of main over an upload of up to MaxBatch files in which no button
\* is clicked.
NextBatch == ProcessFile(MaxBatch) \/ NoClick \/ Finish
SpecBatch == Init /\ [][NextBatch]_vars

\* The two encoders alone, called again and again with every format an image
\* can carry (JPEG, PNG, None for a copy the library made) and every ceiling
\* of the catalog.
CallCompress ==
    /\ epc = "idle"
    /\ \E f \in FileFormats \cup {None}, ceiling \in Ceilings :
         compress_image_call(f, ceiling)
    /\ UNCHANGED <<target, mainVars, exhausted>>

CallResize ==
    /\ epc = "idle"
    /\ \E f \in FileFormats, ceiling \in Ceilings : resize_image_call(f, ceiling)
    /\ UNCHANGED <<target, mainVars, exhausted>>

\* The call has returned; a value returned above the ceiling is remembered.
Returned ==
    /\ epc = "returned"
    /\ exhausted' = IF ExceedsKB(ret.bytes.size, max_size_kb) THEN ret ELSE exhausted
    /\ EncoderCleared
    /\ UNCHANGED mainVars

NextEnc == CallCompress \/ CallResize \/ Encode \/ Returned
SpecEnc == Init /\ [][NextEnc]_vars
\* Every encode attempt that can run does run: the code is one thread with
\* no suspension point.
FairSpecEnc == SpecEnc /\ WF_vars(Encode)

\* ------------------------------------------------------------------ claims
Entries == DOMAIN AMAZON_DSP_SPECS
HasSize(i, w, h) == AMAZON_DSP_SPECS[i].width = w /\ AMAZON_DSP_SPECS[i].height = h
Manhattan(i, w, h) ==
    (IF w >= AMAZON_DSP_SPECS[i].width
     THEN w - AMAZON_DSP_SPECS[i].width ELSE AMAZON_DSP_SPECS[i].width - w)
    + (IF h >= AMAZON_DSP_SPECS[i].height
       THEN h - AMAZON_DSP_SPECS[i].height ELSE AMAZON_DSP_SPECS[i].height - h)
SomeFit(log) == \E i \in DOMAIN log : log[i].fit

\* C1: an image whose (width, height) equals a catalog entry's is matched to
\* exactly that entry's name and max_size_kb; an image whose (width, height)
\* equals no entry's gets no match (None).
C1_ExactMatch ==
    image # NoImage =>
        /\ \A i \in Entries :
               HasSize(i, image.width, image.height) =>
                   /\ format_name = AMAZON_DSP_SPECS[i].name
                   /\ max_size = AMAZON_DSP_SPECS[i].max_size
        /\ (~\E i \in Entries : HasSize(i, image.width, image.height)) =>
               /\ format_name = None
               /\ max_size = 0

\* The last entry of the catalog is matched by a 1456x180 image.
C1_Witness ==
    /\ image # NoImage
    /\ image.width = 1456 /\ image.height = 180
    /\ format_name = "Mobile Leaderboard Tablet"
    /\ max_size = 200

\* C2: for an image with no exact match the nearest-match search selects an
\* entry at the minimum Manhattan distance over the whole catalog, and among
\* the entries at that minimum the first in catalog order.
C2_NearestMatch ==
    (image # NoImage /\ format_name = None) =>
        /\ closest_match \in Entries
        /\ \A j \in Entries :
               Manhattan(j, image.width, image.height)
                   >= Manhattan(closest_match, image.width, image.height)
        /\ \A j \in Entries :
               j < closest_match =>
                   Manhattan(j, image.width, image.height)
                       > Manhattan(closest_match, image.width, image.height)

\* A tie: 300x425 is 175 away from entry 1 (300x250) and from entry 4
\* (300x600), and entry 1 is selected.
C2_Witness ==
    /\ image # NoImage
    /\ image.width = 300 /\ image.height = 425
    /\ Manhattan(1, 300, 425) = Manhattan(4, 300, 425)
    /\ closest_match = 1

\* C3: every call of compress_image and resize_image terminates whatever
\* sizes the encoder produces; a call makes at most 18 JPEG encode attempts
\* and at most 10 PNG encode attempts.
C3_Termination ==
    /\ [](Len(jpeg_log) <= 18 /\ Len(png_log) <= 10)
    /\ (epc \in {"jpeg", "png", "fallback"}) ~> (epc = "returned")

\* compress_image has returned after all ten levels and all eighteen
\* qualities.
C3_Witness ==
    /\ fn = "compress_image"
    /\ epc = "returned"
    /\ Len(png_log) = 10
    /\ Len(jpeg_log) = 18

\* C4: the JPEG search starts at quality 95 and lowers it by 5 per step; no
\* encode follows one that met the ceiling, and when some quality met the
\* ceiling the bytes returned are those encoded at the highest such quality.
C4_FirstSatisfyingQuality ==
    /\ \A i \in DOMAIN jpeg_log : jpeg_log[i].quality = 95 - 5 * (i - 1)
    /\ \A i \in DOMAIN jpeg_log : jpeg_log[i].fit => i = Len(jpeg_log)
    /\ (epc = "returned" /\ SomeFit(jpeg_log)) =>
           /\ ret.bytes.enc = "JPEG"
           /\ jpeg_log[Len(jpeg_log)].fit
           /\ ret.bytes.param = jpeg_log[Len(jpeg_log)].quality
           /\ \A i \in DOMAIN jpeg_log :
                  jpeg_log[i].fit => jpeg_log[i].quality <= ret.bytes.param
           /\ FitsKB(ret.bytes.size, max_size_kb)

\* Qualities 95 and 90 were above the ceiling, 85 met it and was returned.
C4_Witness ==
    /\ epc = "returned"
    /\ Len(jpeg_log) = 3
    /\ jpeg_log[3].fit
    /\ ret.bytes = JpegBytes(85, ret.bytes.size)

\* C5: in every mode that encodes PNG, the levels are tried from 9 down to 0
\* in that order, the bytes of the first level that meets the ceiling are
\* returned, and the JPEG fallback runs only when none of the ten levels met
\* the ceiling.
C5_PngSweep ==
    (epc = "returned" /\ png_log # << >>) =>
        /\ \A i \in DOMAIN png_log : png_log[i].level = 10 - i
        /\ \A i \in DOMAIN png_log : png_log[i].fit => i = Len(png_log)
        /\ SomeFit(png_log) =>
               /\ ret.bytes.enc = "PNG"
               /\ ret.bytes.param = png_log[Len(png_log)].level
               /\ FitsKB(ret.bytes.size, max_size_kb)
        /\ jpeg_log # << >> => (Len(png_log) = 10 /\ ~SomeFit(png_log))

\* C6: in every mode, the format the download is offered under (file
\* extension and MIME type) is JPEG exactly when the bytes are JPEG-encoded.
C6_FormatReported ==
    pc = "download" =>
        ((download.ext \in {"jpeg", "jpg"}) <=> (download.data.enc = "JPEG"))

\* C7: a value returned above the ceiling (BestEffort) is distinguishable
\* from a value returned at or below the ceiling (Success): no value is
\* returned once as the one and once as the other.
C7_Distinguishable ==
    (epc = "returned" /\ FitsKB(ret.bytes.size, max_size_kb)) => ret # exhausted

\* C8: when no encode attempt of a call met the ceiling, the bytes returned
\* are those of the last step tried, the JPEG encode at quality 10, in every
\* path; never a PNG attempt, never nothing.
C8_ExhaustedReturnsLastJpeg ==
    (epc = "returned" /\ ~SomeFit(jpeg_log) /\ ~SomeFit(png_log)) =>
        /\ ret.bytes.enc = "JPEG"
        /\ ret.bytes.param = 10
        /\ ret.bytes = img_byte_arr
        /\ Len(jpeg_log) = 18
        /\ ExceedsKB(ret.bytes.size, max_size_kb)

\* compress_image on a PNG: ten levels and eighteen qualities above the
\* ceiling.
C8_Witness ==
    /\ fn = "compress_image"
    /\ epc = "returned"
    /\ png_log # << >>
    /\ ~SomeFit(png_log)
    /\ ~SomeFit(jpeg_log)
    /\ ret.bytes.enc = "JPEG"

\* The names of the entries some file taken so far matches exactly.
MatchedNames ==
    {AMAZON_DSP_SPECS[i].name :
         i \in {j \in Entries : <<AMAZON_DSP_SPECS[j].width,
                                  AMAZON_DSP_SPECS[j].height>> \in seen}}

\* C9: while a batch is processed the found names are exactly the names of
\* the entries some file taken so far matches exactly (whatever its byte
\* size; a nearest match adds nothing), and after the batch the
\* missing-specifications set is the rest of the catalog's names.
C9_MissingFormats ==
    /\ found_formats = MatchedNames
    /\ pc = "done" => missing_formats = SpecNames \ MatchedNames

\* Two exact matches and one file that matches nothing: seven names missing.
C9_Witness ==
    /\ pc = "done"
    /\ Cardinality(seen) = 3
    /\ Cardinality(found_formats) = 2
    /\ Cardinality(missing_formats) = 7

\* C10: an exact match at or below its entry's max_size_kb gets no encoder,
\* one above it gets compress-only with that entry's ceiling; an image with
\* no exact match gets resize-then-compress when its byte size exceeds the
\* nearest entry's max_size_kb and resize-only otherwise, with the nearest
\* entry's size and ceiling.
C10_ModeOffered ==
    /\ (pc = "button" /\ format_name # None) =>
           offered = IF ExceedsKB(size_kb, max_size) THEN "compress" ELSE "none"
    /\ (pc = "button" /\ format_name = None) =>
           offered = IF ExceedsKB(size_kb, AMAZON_DSP_SPECS[closest_match].max_size)
                     THEN "resize_compress" ELSE "resize"
    /\ (pc = "call" /\ offered = "compress") =>
           (fn = "compress_image" /\ max_size_kb = max_size)
    /\ (pc = "call" /\ offered = "resize_compress") =>
           /\ fn = "compress_image"
           /\ max_size_kb = AMAZON_DSP_SPECS[closest_match].max_size
           /\ target = <<AMAZON_DSP_SPECS[closest_match].width,
                         AMAZON_DSP_SPECS[closest_match].height>>
    /\ (pc = "call" /\ offered = "resize") =>
           /\ fn = "resize_image"
           /\ max_size_kb = AMAZON_DSP_SPECS[closest_match].max_size
           /\ target = <<AMAZON_DSP_SPECS[closest_match].width,
                         AMAZON_DSP_SPECS[closest_match].height>>

====
